---- MODULE Spec2Model ----
(***************************************************************************)
(* Signing and recursive ("matryoshka") verification of NeoFS service      *)
(* messages (package client), and the signature scheme registry (package   *)
(* neofscrypto).                                                           *)
(*                                                                         *)
(* A header chain is a sequence, outermost level first; the empty sequence *)
(* is the nil header.  The serialization of a header is the chain from     *)
(* that level inwards, the serialization of nil is empty data.             *)
(***************************************************************************)
EXTENDS Integers, Sequences, FiniteSets, TLC

VARIABLES msg, pre, op, ret, arg, calls, tampered, honest,
          publicKeys, regRet, regArg, regLog,
          static, stLog,
          cache, currentEpoch, threads, cret, epochLog,
          filter, v2msg, fLog

vars == <<msg, pre, op, ret, arg, calls, tampered, honest,
          publicKeys, regRet, regArg, regLog,
          static, stLog,
          cache, currentEpoch, threads, cret, epochLog,
          filter, v2msg, fLog>>

msgVars == <<msg, pre, op, ret, arg, calls, tampered, honest>>

regVars == <<publicKeys, regRet, regArg, regLog>>

staticVars == <<static, stLog>>

cacheVars == <<cache, currentEpoch, threads, cret, epochLog>>

filterVars == <<filter, v2msg, fLog>>

----------------------------------------------------------------------------
(* Bounds *)

\* longest verification header chain the model builds
MaxDepth == 3

\* number of signature schemes offered to RegisterScheme
NumSchemes == 3

\* number of distinct PublicKey constructors offered to RegisterScheme
NumCtors == 2

\* number of calls made on one StaticSigner
MaxCalls == 3

\* highest epoch of the network, and highest expiration epoch of a token
MaxEpoch == 2

----------------------------------------------------------------------------
(* Results *)

OK == "nil"

Panic == "panic"

ErrSignUnsupported == "sign: unsupported session message"

ErrSignBody == "sign: body"

ErrSignMeta == "sign: meta header"

ErrSignOrigin == "sign: origin of verification header"

ErrUnsupported == "unsupported session message"

ErrVerifyMeta == "could not verify meta header"

ErrVerifyOrigin == "could not verify origin of verification header"

ErrVerifyBody == "could not verify body"

ErrUpperBody == "body signature at the matryoshka upper level"

----------------------------------------------------------------------------
(* Signed data.  Body, meta header and verification header serialize into  *)
(* disjoint sets of byte strings, except that each of them, when nil,      *)
(* serializes to the same empty data.                                      *)

EmptyData == [body |-> <<>>, meta |-> <<>>, vhdr |-> <<>>]

BodyData(body) == [EmptyData EXCEPT !.body = body]

MetaData(meta) == [EmptyData EXCEPT !.meta = meta]

VhdrData(verify) == [EmptyData EXCEPT !.vhdr = verify]

\* data no part of a message serializes to
GarbageData == [EmptyData EXCEPT !.body = <<"garbage">>]

----------------------------------------------------------------------------
(* Signers *)

\* the parts of a message signServiceMessage signs
Parts == {"body", "meta", "origin"}

\* the keys of the callers, and the key of a third party
KeyNames == {"k1"}

ForeignKey == "kx"

\* a signer holding a private key; fails names the part on which its Sign
\* returns an error ("none": Sign always succeeds)
KeySigners == [key : KeyNames, static : {FALSE}, fails : Parts \cup {"none"}]

\* a StaticSigner: replays one precalculated signature, here one of the
\* empty data
StaticSigners == [key : {"st"}, static : {TRUE}, fails : {"none"}]

Signers == KeySigners \cup StaticSigners

StaticSignature == [key |-> "st", data |-> EmptyData]

\* Signer.Sign followed by the packaging of scheme, public key and signature
SignerSign(signer, data) ==
    IF signer.static THEN StaticSignature ELSE [key |-> signer.key, data |-> data]

\* PublicKey.Verify: a signature is accepted for the data it was made of
PublicKeyVerify(data, sig) == sig.data = data

\* Signature.CalculateMarshalled: the part is serialized (nil as empty data)
\* and signed; name tells which part of the message it is, for the signers
\* that fail on one
CalculateMarshalled(signer, part, name) ==
    IF signer.fails = name
    THEN [err |-> "signer failure", sig |-> <<>>]
    ELSE [err |-> OK, sig |-> <<SignerSign(signer, part)>>]

----------------------------------------------------------------------------
(* Messages *)

\* message types serviceMessageBody lists
ListedKinds == {"request", "response"}

\* "unlisted": has the service message methods, but no case in
\* serviceMessageBody;  "foreign": has not the service message methods
Kinds == {"nil", "foreign", "unlisted"} \cup ListedKinds

ServiceKinds == ListedKinds \cup {"unlisted"}

NoLevel == [body |-> <<>>, meta |-> <<>>, origin |-> <<>>]

BlankMsg(kind) == [kind |-> kind, body |-> <<>>, meta |-> <<>>, vhdr |-> <<>>]

\* requestMetaHeader.getOrigin: the wrapper of the origin, nil included
metaGetOrigin(meta) == IF meta = <<>> THEN <<>> ELSE Tail(meta)

\* requestVerificationHeader.getOrigin
verifyGetOrigin(verify) == IF verify = <<>> THEN <<>> ELSE Tail(verify)

\* the signature slots of a header; the getters of a nil header return nil
Level(verify) == IF verify = <<>> THEN NoLevel ELSE Head(verify)

----------------------------------------------------------------------------
(* Signing *)

\* signServiceMessagePart: sig is what sigWrite receives
signServiceMessagePart(signer, part, name) ==
    LET c == CalculateMarshalled(signer, part, name)
    IN  IF c.err # OK
        THEN [err |-> "calculate", sig |-> <<>>]
        ELSE [err |-> OK, sig |-> c.sig]

\* a serviceMessageBody that returns a nil body for a message it does not list
serviceMessageBodyNilBody(m) ==
    IF m.kind \in ListedKinds
    THEN [panic |-> FALSE, body |-> BodyData(m.body)]
    ELSE [panic |-> FALSE, body |-> EmptyData]

\* serviceMessageBody: the body of a listed message, a panic otherwise
serviceMessageBody(m) ==
    IF m.kind \in ListedKinds
    THEN [panic |-> FALSE, body |-> BodyData(m.body)]
    ELSE [panic |-> TRUE, body |-> EmptyData]

\* a signServiceMessage that signs the body at every level
signsBodyAlways(verifyOrigin) == TRUE

\* signServiceMessage, line 173: the body is signed when the message has no
\* verification header yet
signsBody(verifyOrigin) == verifyOrigin = <<>>

\* a signServiceMessage that signs the origin only when there is one
signOriginIfAny(signer, verifyOrigin) ==
    IF verifyOrigin = <<>>
    THEN [err |-> OK, sig |-> <<>>]
    ELSE signServiceMessagePart(signer, VhdrData(verifyOrigin), "origin")

\* a signServiceMessage that signs a nil origin whatever the origin is
signOriginNil(signer, verifyOrigin) ==
    signServiceMessagePart(signer, EmptyData, "origin")

\* signServiceMessage, lines 185-188: the origin is signed, nil or not
signOrigin(signer, verifyOrigin) ==
    signServiceMessagePart(signer, VhdrData(verifyOrigin), "origin")

\* a setOrigin that sets nothing
setOriginDropped(h, m) == <<h>>

\* requestVerificationHeader.setOrigin: the header h with origin m
setOrigin(h, m) == IF m # <<>> THEN <<h>> \o m ELSE <<h>>

\* a verifyHdrSetter that sets nothing
verifyHdrSetterDropped(m, h) == m

\* a verifyHdrSetter that also nests the meta header into a new one
verifyHdrSetterNestsMeta(m, h) ==
    [m EXCEPT !.vhdr = h, !.meta = IF @ = <<>> THEN @ ELSE <<Head(@)>> \o @]

\* verifyHdrSetter: SetVerificationHeader of the message
verifyHdrSetter(m, h) == [m EXCEPT !.vhdr = h]

\* a signServiceMessage that writes each signature into the header of the
\* message as soon as it is made
signPartsInPlace(signer, m, body, meta, verifyOrigin) ==
    LET b == IF signsBody(verifyOrigin)
             THEN signServiceMessagePart(signer, body, "body")
             ELSE [err |-> OK, sig |-> <<>>]
        mt == signServiceMessagePart(signer, meta, "meta")
        o == signOrigin(signer, verifyOrigin)
        n == IF signsBody(verifyOrigin) THEN 1 ELSE 0
        h1 == [body |-> b.sig, meta |-> <<>>, origin |-> <<>>]
        h2 == [h1 EXCEPT !.meta = mt.sig]
        h3 == [h2 EXCEPT !.origin = o.sig]
    IN  IF b.err # OK THEN [err |-> ErrSignBody, msg |-> m, calls |-> n]
        ELSE IF mt.err # OK
        THEN [err |-> ErrSignMeta,
              msg |-> verifyHdrSetter(m, setOrigin(h1, verifyOrigin)),
              calls |-> n + 1]
        ELSE IF o.err # OK
        THEN [err |-> ErrSignOrigin,
              msg |-> verifyHdrSetter(m, setOrigin(h2, verifyOrigin)),
              calls |-> n + 2]
        ELSE [err |-> OK,
              msg |-> verifyHdrSetter(m, setOrigin(h3, verifyOrigin)),
              calls |-> n + 2]

\* signServiceMessage from line 173 on: the error returned, the message as
\* the call leaves it, and the number of calls of the signer's Sign
signParts(signer, m, body, meta, verifyOrigin) ==
    LET b == IF signsBody(verifyOrigin)
             THEN signServiceMessagePart(signer, body, "body")
             ELSE [err |-> OK, sig |-> <<>>]
        mt == signServiceMessagePart(signer, meta, "meta")
        o == signOrigin(signer, verifyOrigin)
        n == IF signsBody(verifyOrigin) THEN 1 ELSE 0
        verifyHdr == [body |-> b.sig, meta |-> mt.sig, origin |-> o.sig]
    IN  IF b.err # OK THEN [err |-> ErrSignBody, msg |-> m, calls |-> n]
        ELSE IF mt.err # OK
        THEN [err |-> ErrSignMeta, msg |-> m, calls |-> n + 1]
        ELSE IF o.err # OK
        THEN [err |-> ErrSignOrigin, msg |-> m, calls |-> n + 2]
        ELSE [err |-> OK,
              msg |-> verifyHdrSetter(m, setOrigin(verifyHdr, verifyOrigin)),
              calls |-> n + 2]

\* a signServiceMessage without the case of the nil message
signServiceMessageNoNil(signer, m) ==
    IF m.kind \notin ServiceKinds
    THEN [err |-> ErrSignUnsupported, msg |-> m, calls |-> 0]
    ELSE IF serviceMessageBody(m).panic
    THEN [err |-> Panic, msg |-> m, calls |-> 0]
    ELSE signParts(signer, m, serviceMessageBody(m).body, MetaData(m.meta),
                   m.vhdr)

\* signServiceMessage: the type switch, then the signing
signServiceMessage(signer, m) ==
    IF m.kind = "nil" THEN [err |-> OK, msg |-> m, calls |-> 0]
    ELSE IF m.kind \notin ServiceKinds
    THEN [err |-> ErrSignUnsupported, msg |-> m, calls |-> 0]
    ELSE IF serviceMessageBody(m).panic
    THEN [err |-> Panic, msg |-> m, calls |-> 0]
    ELSE signParts(signer, m, serviceMessageBody(m).body, MetaData(m.meta),
                   m.vhdr)

----------------------------------------------------------------------------
(* Verification *)

\* a verifyServiceMessagePart that takes a missing signature for a valid one
verifyServiceMessagePartNilOK(part, sig) ==
    IF sig = <<>> THEN TRUE ELSE PublicKeyVerify(part, sig[1])

\* verifyServiceMessagePart: signature.VerifyDataWithSource over the
\* stableMarshalerWrapper of the part; a nil signature carries no public key
verifyServiceMessagePart(part, sig) ==
    IF sig = <<>> THEN FALSE ELSE PublicKeyVerify(part, sig[1])

\* a verifyMatryoshkaLevel that does not look at the body signature of an
\* upper level
upperBodySignatureIgnored(lvl) == FALSE

\* verifyMatryoshkaLevel, line 274: a level that has an origin carries a
\* body signature
upperBodySignature(lvl) == lvl.body # <<>>

RECURSIVE verifyMatryoshkaLevel(_, _, _)

\* a verifyMatryoshkaLevel that verifies the origin before the meta header
verifyMatryoshkaLevelOriginFirst(body, meta, verify) ==
    LET origin == verifyGetOrigin(verify)
        lvl == Level(verify)
    IN  IF ~verifyServiceMessagePart(VhdrData(origin), lvl.origin)
        THEN [err |-> ErrVerifyOrigin, checks |-> <<"origin">>]
        ELSE IF ~verifyServiceMessagePart(MetaData(meta), lvl.meta)
        THEN [err |-> ErrVerifyMeta, checks |-> <<"origin", "meta">>]
        ELSE IF origin = <<>>
        THEN IF ~verifyServiceMessagePart(body, lvl.body)
             THEN [err |-> ErrVerifyBody, checks |-> <<"origin", "meta", "body">>]
             ELSE [err |-> OK, checks |-> <<"origin", "meta", "body">>]
        ELSE IF upperBodySignature(lvl)
        THEN [err |-> ErrUpperBody, checks |-> <<"origin", "meta", "upper">>]
        ELSE LET r == verifyMatryoshkaLevel(body, metaGetOrigin(meta), origin)
             IN  [err |-> r.err,
                  checks |-> <<"origin", "meta", "upper">> \o r.checks]

\* a verifyMatryoshkaLevel that verifies the origin signature only of a level
\* that has an origin
verifyMatryoshkaLevelOriginIfAny(body, meta, verify) ==
    LET origin == verifyGetOrigin(verify)
        lvl == Level(verify)
    IN  IF ~verifyServiceMessagePart(MetaData(meta), lvl.meta)
        THEN [err |-> ErrVerifyMeta, checks |-> <<"meta">>]
        ELSE IF origin = <<>>
        THEN IF ~verifyServiceMessagePart(body, lvl.body)
             THEN [err |-> ErrVerifyBody, checks |-> <<"meta", "body">>]
             ELSE [err |-> OK, checks |-> <<"meta", "body">>]
        ELSE IF ~verifyServiceMessagePart(VhdrData(origin), lvl.origin)
        THEN [err |-> ErrVerifyOrigin, checks |-> <<"meta", "origin">>]
        ELSE IF upperBodySignature(lvl)
        THEN [err |-> ErrUpperBody, checks |-> <<"meta", "origin", "upper">>]
        ELSE LET r == verifyMatryoshkaLevel(body, metaGetOrigin(meta), origin)
             IN  [err |-> r.err,
                  checks |-> <<"meta", "origin", "upper">> \o r.checks]

\* a verifyMatryoshkaLevel that goes on as long as the meta header has an
\* origin
verifyMatryoshkaLevelMetaChain(body, meta, verify) ==
    LET origin == verifyGetOrigin(verify)
        lvl == Level(verify)
    IN  IF ~verifyServiceMessagePart(MetaData(meta), lvl.meta)
        THEN [err |-> ErrVerifyMeta, checks |-> <<"meta">>]
        ELSE IF ~verifyServiceMessagePart(VhdrData(origin), lvl.origin)
        THEN [err |-> ErrVerifyOrigin, checks |-> <<"meta", "origin">>]
        ELSE IF origin = <<>> /\ metaGetOrigin(meta) = <<>>
        THEN IF ~verifyServiceMessagePart(body, lvl.body)
             THEN [err |-> ErrVerifyBody, checks |-> <<"meta", "origin", "body">>]
             ELSE [err |-> OK, checks |-> <<"meta", "origin", "body">>]
        ELSE IF origin # <<>> /\ upperBodySignature(lvl)
        THEN [err |-> ErrUpperBody, checks |-> <<"meta", "origin", "upper">>]
        ELSE LET r == verifyMatryoshkaLevel(body, metaGetOrigin(meta), origin)
             IN  [err |-> r.err,
                  checks |-> <<"meta", "origin", "upper">> \o r.checks]

\* a verifyMatryoshkaLevel that refuses a header with more than one origin
\* below it
verifyMatryoshkaLevelMaxDepth(body, meta, verify) ==
    LET origin == verifyGetOrigin(verify)
        lvl == Level(verify)
    IN  IF Len(verify) > 2
        THEN [err |-> "verification header nested too deep", checks |-> <<>>]
        ELSE IF ~verifyServiceMessagePart(MetaData(meta), lvl.meta)
        THEN [err |-> ErrVerifyMeta, checks |-> <<"meta">>]
        ELSE IF ~verifyServiceMessagePart(VhdrData(origin), lvl.origin)
        THEN [err |-> ErrVerifyOrigin, checks |-> <<"meta", "origin">>]
        ELSE IF origin = <<>>
        THEN IF ~verifyServiceMessagePart(body, lvl.body)
             THEN [err |-> ErrVerifyBody, checks |-> <<"meta", "origin", "body">>]
             ELSE [err |-> OK, checks |-> <<"meta", "origin", "body">>]
        ELSE IF upperBodySignature(lvl)
        THEN [err |-> ErrUpperBody, checks |-> <<"meta", "origin", "upper">>]
        ELSE LET r == verifyMatryoshkaLevel(body, metaGetOrigin(meta), origin)
             IN  [err |-> r.err,
                  checks |-> <<"meta", "origin", "upper">> \o r.checks]

\* verifyMatryoshkaLevel: the error returned and the checks made, in order
verifyMatryoshkaLevel(body, meta, verify) ==
    LET origin == verifyGetOrigin(verify)
        lvl == Level(verify)
    IN  IF ~verifyServiceMessagePart(MetaData(meta), lvl.meta)
        THEN [err |-> ErrVerifyMeta, checks |-> <<"meta">>]
        ELSE IF ~verifyServiceMessagePart(VhdrData(origin), lvl.origin)
        THEN [err |-> ErrVerifyOrigin, checks |-> <<"meta", "origin">>]
        ELSE IF origin = <<>>
        THEN IF ~verifyServiceMessagePart(body, lvl.body)
             THEN [err |-> ErrVerifyBody, checks |-> <<"meta", "origin", "body">>]
             ELSE [err |-> OK, checks |-> <<"meta", "origin", "body">>]
        ELSE IF upperBodySignature(lvl)
        THEN [err |-> ErrUpperBody, checks |-> <<"meta", "origin", "upper">>]
        ELSE LET r == verifyMatryoshkaLevel(body, metaGetOrigin(meta), origin)
             IN  [err |-> r.err,
                  checks |-> <<"meta", "origin", "upper">> \o r.checks]

\* a verifyServiceMessage that has nothing to verify in a message without
\* verification header
verifyServiceMessageNoHeaderOK(m) ==
    IF m.kind = "nil" THEN [err |-> OK, checks |-> <<>>]
    ELSE IF m.kind \notin ServiceKinds
    THEN [err |-> ErrUnsupported, checks |-> <<>>]
    ELSE IF serviceMessageBody(m).panic
    THEN [err |-> Panic, checks |-> <<>>]
    ELSE IF m.vhdr = <<>> THEN [err |-> OK, checks |-> <<>>]
    ELSE verifyMatryoshkaLevel(serviceMessageBody(m).body, m.meta, m.vhdr)

\* verifyServiceMessage
verifyServiceMessage(m) ==
    IF m.kind = "nil" THEN [err |-> OK, checks |-> <<>>]
    ELSE IF m.kind \notin ServiceKinds
    THEN [err |-> ErrUnsupported, checks |-> <<>>]
    ELSE IF serviceMessageBody(m).panic
    THEN [err |-> Panic, checks |-> <<>>]
    ELSE verifyMatryoshkaLevel(serviceMessageBody(m).body, m.meta, m.vhdr)

\* number of levels verifyMatryoshkaLevel was entered for
Levels(checks) == Cardinality({i \in 1..Len(checks) : checks[i] = "meta"})

----------------------------------------------------------------------------
(* Scheme registry *)

\* ECDSA_SHA512 = 0, ECDSA_DETERMINISTIC_SHA256 = 1, ECDSA_WALLETCONNECT = 2
Schemes == 0 .. (NumSchemes - 1)

\* the constructors of blank public keys
Ctors == 1 .. NumCtors

\* a RegisterScheme that does not look for an earlier registration
RegisterSchemeOverwrite(pk, scheme, f) ==
    [panic |-> FALSE,
     publicKeys |-> [s \in DOMAIN pk \cup {scheme} |->
                        IF s = scheme THEN f ELSE pk[s]]]

\* RegisterScheme on the map pk: whether it panics, and the map it leaves
RegisterScheme(pk, scheme, f) ==
    IF scheme \in DOMAIN pk
    THEN [panic |-> TRUE, publicKeys |-> pk]
    ELSE [panic |-> FALSE,
          publicKeys |-> [s \in DOMAIN pk \cup {scheme} |->
                             IF s = scheme THEN f ELSE pk[s]]]

----------------------------------------------------------------------------
(* StaticSigner *)

\* signatures, payloads and public keys given to a StaticSigner
SigBytes == {<<>>, <<1>>, <<1, 2>>}

Payloads == {<<>>, <<1>>, <<2, 1>>}

PubKeys == KeyNames \cup {"st"}

\* NewStaticSigner: the fields of the StaticSigner
NewStaticSigner(scheme, sig, pubKey) ==
    [scheme |-> scheme, sig |-> sig, pubKey |-> pubKey]

\* StaticSigner.Scheme
StaticSignerScheme(s) == s.scheme

\* a Sign that signs the data it is given
StaticSignerSignData(s, data) == [sig |-> data, err |-> OK]

\* StaticSigner.Sign: the signature and the error returned
StaticSignerSign(s, data) == [sig |-> s.sig, err |-> OK]

\* StaticSigner.Public
StaticSignerPublic(s) == s.pubKey

----------------------------------------------------------------------------
(* Session cache (package pool) *)

\* session tokens: the epoch after which a token is expired
EmptyToken == [id |-> "", exp |-> 0]

Tokens == [id : {"tok"}, exp : 0 .. MaxEpoch]

\* session.Object.ExpiredAt
ExpiredAt(token, epoch) == token.exp < epoch

CacheKeys == {"a", "b"}

\* lru.Cache: size and items, most recently used first; each of its
\* operations is atomic
lruNew(size) == [size |-> size, items |-> <<>>]

lruIndex(c, key) ==
    IF \E i \in 1 .. Len(c.items) : c.items[i].key = key
    THEN CHOOSE i \in 1 .. Len(c.items) : c.items[i].key = key
    ELSE 0

lruWithout(items, i) ==
    SubSeq(items, 1, i - 1) \o SubSeq(items, i + 1, Len(items))

lruContains(c, key) == lruIndex(c, key) # 0

\* lru.Cache.Get: the value of the key, which becomes the most recently used
lruGet(c, key) ==
    LET i == lruIndex(c, key)
    IN  IF i = 0
        THEN [ok |-> FALSE, value |-> EmptyToken, cache |-> c]
        ELSE [ok |-> TRUE, value |-> c.items[i].value,
              cache |-> [c EXCEPT !.items = <<c.items[i]>> \o lruWithout(@, i)]]

\* lru.Cache.Add: whether an entry was evicted, and the cache
lruAdd(c, key, value) ==
    LET i == lruIndex(c, key)
        e == [key |-> key, value |-> value]
    IN  IF i # 0
        THEN [evicted |-> FALSE,
              cache |-> [c EXCEPT !.items = <<e>> \o lruWithout(@, i)]]
        ELSE IF Len(c.items) + 1 > c.size
        THEN [evicted |-> TRUE,
              cache |-> [c EXCEPT !.items = SubSeq(<<e>> \o @, 1, c.size)]]
        ELSE [evicted |-> FALSE, cache |-> [c EXCEPT !.items = <<e>> \o @]]

\* lru.Cache.Remove
lruRemove(c, key) ==
    LET i == lruIndex(c, key)
    IN  IF i = 0 THEN c ELSE [c EXCEPT !.items = lruWithout(@, i)]

\* an expired that takes every token for valid
expiredNever(val, epoch) == FALSE

\* sessionCache.expired, epoch being the currentEpoch it loaded
expired(val, epoch) == ExpiredAt(val, epoch)

----------------------------------------------------------------------------
(* eACL filters (package eacl) *)

\* filterKeyType: the reserved filter keys
fKeyObjVersion == 1

fKeyObjID == 2

fKeyObjContainerID == 3

fKeyObjOwnerID == 4

fKeyObjCreationEpoch == 5

fKeyObjPayloadLength == 6

fKeyObjPayloadHash == 7

fKeyObjType == 8

fKeyObjHomomorphicHash == 9

fKeyObjLast == 10

\* the names of the reserved keys in the v2 messages
FilterObjectVersion == "$Object:version"

FilterObjectID == "$Object:objectID"

FilterObjectContainerID == "$Object:containerID"

FilterObjectOwnerID == "$Object:ownerID"

FilterObjectCreationEpoch == "$Object:creationEpoch"

FilterObjectPayloadLength == "$Object:payloadLength"

FilterObjectPayloadHash == "$Object:payloadHash"

FilterObjectType == "$Object:objectType"

FilterObjectHomomorphicHash == "$Object:homomorphicHash"

\* filterKey.String
filterKeyString(k) ==
    CASE k.typ = fKeyObjVersion -> FilterObjectVersion
      [] k.typ = fKeyObjID -> FilterObjectID
      [] k.typ = fKeyObjContainerID -> FilterObjectContainerID
      [] k.typ = fKeyObjOwnerID -> FilterObjectOwnerID
      [] k.typ = fKeyObjCreationEpoch -> FilterObjectCreationEpoch
      [] k.typ = fKeyObjPayloadLength -> FilterObjectPayloadLength
      [] k.typ = fKeyObjPayloadHash -> FilterObjectPayloadHash
      [] k.typ = fKeyObjType -> FilterObjectType
      [] k.typ = fKeyObjHomomorphicHash -> FilterObjectHomomorphicHash
      [] OTHER -> k.str

\* a fromString that takes the object type key for the payload hash key
fromStringWrongCase(s) ==
    CASE s = FilterObjectVersion -> [typ |-> fKeyObjVersion, str |-> ""]
      [] s = FilterObjectID -> [typ |-> fKeyObjID, str |-> ""]
      [] s = FilterObjectContainerID -> [typ |-> fKeyObjContainerID, str |-> ""]
      [] s = FilterObjectOwnerID -> [typ |-> fKeyObjOwnerID, str |-> ""]
      [] s = FilterObjectCreationEpoch -> [typ |-> fKeyObjCreationEpoch, str |-> ""]
      [] s = FilterObjectPayloadLength -> [typ |-> fKeyObjPayloadLength, str |-> ""]
      [] s = FilterObjectPayloadHash -> [typ |-> fKeyObjPayloadHash, str |-> ""]
      [] s = FilterObjectType -> [typ |-> fKeyObjPayloadHash, str |-> ""]
      [] s = FilterObjectHomomorphicHash -> [typ |-> fKeyObjHomomorphicHash, str |-> ""]
      [] OTHER -> [typ |-> 0, str |-> s]

\* filterKey.fromString: the key it sets
fromString(s) ==
    CASE s = FilterObjectVersion -> [typ |-> fKeyObjVersion, str |-> ""]
      [] s = FilterObjectID -> [typ |-> fKeyObjID, str |-> ""]
      [] s = FilterObjectContainerID -> [typ |-> fKeyObjContainerID, str |-> ""]
      [] s = FilterObjectOwnerID -> [typ |-> fKeyObjOwnerID, str |-> ""]
      [] s = FilterObjectCreationEpoch -> [typ |-> fKeyObjCreationEpoch, str |-> ""]
      [] s = FilterObjectPayloadLength -> [typ |-> fKeyObjPayloadLength, str |-> ""]
      [] s = FilterObjectPayloadHash -> [typ |-> fKeyObjPayloadHash, str |-> ""]
      [] s = FilterObjectType -> [typ |-> fKeyObjType, str |-> ""]
      [] s = FilterObjectHomomorphicHash -> [typ |-> fKeyObjHomomorphicHash, str |-> ""]
      [] OTHER -> [typ |-> 0, str |-> s]

\* staticStringer.EncodeToString and u64Stringer.EncodeToString
EncodeToString(v) == IF v.kind = "u64" THEN ToString(v.n) ELSE v.s

staticStringer(s) == [kind |-> "static", s |-> s, n |-> 0]

u64Stringer(n) == [kind |-> "u64", s |-> "", n |-> n]

\* the nil stringEncoder of a Filter that was given no value
NilValue == [kind |-> "nil", s |-> "", n |-> 0]

\* FilterHeaderType.ToV2 and FilterHeaderTypeFromV2
HeaderTypeToV2(t) ==
    CASE t = 1 -> "REQUEST" [] t = 2 -> "OBJECT" [] t = 3 -> "SERVICE"
      [] OTHER -> "HEADER_UNSPECIFIED"

FilterHeaderTypeFromV2(t) ==
    CASE t = "REQUEST" -> 1 [] t = "OBJECT" -> 2 [] t = "SERVICE" -> 3
      [] OTHER -> 0

\* Match.ToV2 and MatchFromV2
MatchToV2(m) ==
    CASE m = 1 -> "STRING_EQUAL" [] m = 2 -> "STRING_NOT_EQUAL"
      [] OTHER -> "MATCH_TYPE_UNSPECIFIED"

MatchFromV2(m) ==
    CASE m = "STRING_EQUAL" -> 1 [] m = "STRING_NOT_EQUAL" -> 2
      [] OTHER -> 0

\* new(Filter), and the nil *Filter
BlankFilter ==
    [nil |-> FALSE, from |-> 0, matcher |-> 0,
     key |-> [typ |-> 0, str |-> ""], value |-> NilValue]

NilFilter == [BlankFilter EXCEPT !.nil = TRUE]

\* new(v2acl.HeaderFilter), and the nil *v2acl.HeaderFilter, whose getters
\* return the zero values
BlankV2 ==
    [nil |-> FALSE, headerType |-> "HEADER_UNSPECIFIED",
     matchType |-> "MATCH_TYPE_UNSPECIFIED", key |-> "", value |-> ""]

NilV2 == [BlankV2 EXCEPT !.nil = TRUE]

\* Filter.Key
FilterKey(f) == filterKeyString(f.key)

\* Filter.ToV2: the message, or a panic for the nil value of a Filter that
\* was given none
ToV2(f) ==
    IF f.nil THEN [panic |-> FALSE, v2 |-> NilV2]
    ELSE IF f.value = NilValue THEN [panic |-> TRUE, v2 |-> NilV2]
    ELSE [panic |-> FALSE,
          v2 |-> [nil |-> FALSE,
                  headerType |-> HeaderTypeToV2(f.from),
                  matchType |-> MatchToV2(f.matcher),
                  key |-> filterKeyString(f.key),
                  value |-> EncodeToString(f.value)]]

\* NewFilterFromV2
NewFilterFromV2(m) ==
    IF m.nil THEN BlankFilter
    ELSE [nil |-> FALSE,
          from |-> FilterHeaderTypeFromV2(m.headerType),
          matcher |-> MatchFromV2(m.matchType),
          key |-> fromString(m.key),
          value |-> staticStringer(m.value)]

\* the names of the reserved keys, and the types that have a name
ReservedNames ==
    {FilterObjectVersion, FilterObjectID, FilterObjectContainerID,
     FilterObjectOwnerID, FilterObjectCreationEpoch, FilterObjectPayloadLength,
     FilterObjectPayloadHash, FilterObjectType, FilterObjectHomomorphicHash}

ReservedTypes == fKeyObjVersion .. (fKeyObjLast - 1)

\* key strings a caller or a peer supplies: the reserved names, and others
\* that differ from them in case or length
KeyStrings ==
    ReservedNames \cup {"", "attr", "$Object:", "$Object:Version",
                         "$Object:objectType "}

\* the keys a Filter is built with: a reserved type with no string, or a
\* string of the caller with no type
FilterKeys ==
    {[typ |-> t, str |-> ""] : t \in ReservedTypes}
        \cup {[typ |-> 0, str |-> str] : str \in KeyStrings}

FilterValues == {staticStringer("v"), u64Stringer(7)}

\* no call yet; src is the Filter that v2msg was made from, if made
NoFilterCall == [op |-> "none", s |-> "", panic |-> FALSE, made |-> FALSE,
                 src |-> NilFilter]

InitFilter ==
    /\ filter = BlankFilter
    /\ v2msg = NilV2
    /\ fLog = NoFilterCall

----------------------------------------------------------------------------
(* The message a caller signs, relays, receives and verifies *)

\* the bodies and meta header contents of the messages callers make
Bodies == {<<>>, <<"b1">>}

MetaVals == {"m1"}

\* what a third party changes them to
OtherBodies == Bodies \cup {<<"b2">>}

OtherMetaVals == MetaVals \cup {"m2"}

NoSigner == [key |-> "none", static |-> FALSE, fails |-> "none"]

\* msg is the message, pre the message before the last step, op, ret and
\* calls the last step, what it returned and how often it called the signer's
\* Sign; tampered: a third party changed the message; honest: every step so
\* far was a signServiceMessage with a key signer or a verifyServiceMessage.
\* arg is what the last step was given: the signer of a sign, the field a tamper
\* changed and whether the value put there is a valid signature of the
\* data the field is verified against
NoArg == [signer |-> NoSigner, what |-> "none", level |-> 0, valid |-> FALSE]

Suffix(s, i) == IF i > Len(s) THEN <<>> ELSE SubSeq(s, i, Len(s))

\* the data the signature in a slot of level i is verified against
SlotData(m, i, slot) ==
    CASE slot = "body" -> BodyData(m.body)
      [] slot = "meta" -> MetaData(Suffix(m.meta, i))
      [] slot = "origin" -> VhdrData(Suffix(m.vhdr, i + 1))

FreshMsgs ==
    {BlankMsg("nil"), BlankMsg("foreign")} \cup
    {[kind |-> k, body |-> b, meta |-> mm, vhdr |-> <<>>] :
        k \in ServiceKinds, b \in Bodies, mm \in {<<>>} \cup {<<v>> : v \in MetaVals}}

InitMsg ==
    /\ msg \in FreshMsgs
    /\ pre = msg
    /\ op = "init"
    /\ ret = OK
    /\ arg = NoArg
    /\ calls = 0
    /\ tampered = FALSE
    /\ honest = TRUE

InitReg ==
    /\ publicKeys = << >>
    /\ regRet = OK
    /\ regArg = [scheme |-> 0, f |-> 1, pre |-> << >>]
    /\ regLog = << >>

\* static is a StaticSigner; stLog: what NewStaticSigner was given, the last
\* call on the signer, its payload, what it returned and the number of calls
\* so far
NoCall(given) ==
    [given |-> given, op |-> "new", data |-> <<>>, ret |-> [err |-> OK], n |-> 0]

InitStatic ==
    /\ static = NewStaticSigner(0, <<>>, "st")
    /\ stLog = NoCall(static)

\* the goroutines that use one sessionCache
Threads == {"t1", "t2"}

\* a goroutine outside the calls of the cache, and its locals inside one: the
\* key and the value Get found, the epoch expired loaded, the epoch
\* updateEpoch is to store
Idle == [pc |-> "idle", key |-> "", val |-> EmptyToken, epoch |-> 0, new |-> 0]

\* cret is the last return of a call: the call, its key, the results (ok is
\* the boolean returned), and for Get whether the key was found, the value
\* found, the epoch loaded, whether the key was absent after the Remove and
\* whether the items of the cache changed in the last step of the call; gone
\* is the token the Remove of Get took out of the cache (the empty token
\* when it took none) and now the value of currentEpoch at that moment
NoRet ==
    [op |-> "none", key |-> "", ok |-> FALSE, token |-> EmptyToken,
     hit |-> FALSE, val |-> EmptyToken, epoch |-> 0,
     removed |-> FALSE, changed |-> FALSE,
     gone |-> EmptyToken, now |-> 0]

\* newCache(size): currentEpoch is zero.  epochLog: the highest epoch passed
\* to updateEpoch and the highest value currentEpoch had
InitCache(size) ==
    /\ cache = lruNew(size)
    /\ currentEpoch = 0
    /\ threads = [t \in Threads |-> Idle]
    /\ cret = NoRet
    /\ epochLog = [passed |-> 0, peak |-> 0]

\* a caller signs the message it made or relays
Sign(signer) ==
    /\ ~tampered
    /\ Len(msg.vhdr) < MaxDepth
    /\ LET r == signServiceMessage(signer, msg)
       IN  /\ msg' = r.msg
           /\ ret' = r.err
           /\ calls' = r.calls
    /\ pre' = msg
    /\ op' = "sign"
    /\ arg' = [NoArg EXCEPT !.signer = signer]
    /\ honest' = (honest /\ ~signer.static)
    /\ UNCHANGED <<tampered, regVars, staticVars, cacheVars, filterVars>>

Verify ==
    /\ ret' = verifyServiceMessage(msg).err
    /\ pre' = msg
    /\ op' = "verify"
    /\ arg' = NoArg
    /\ calls' = 0
    /\ UNCHANGED <<msg, tampered, honest, regVars, staticVars, cacheVars, filterVars>>

\* a relaying caller nests the meta header into a new one before it signs
WrapMeta(v) ==
    /\ ~tampered
    /\ msg.kind \in ListedKinds
    /\ Len(msg.meta) < MaxDepth
    /\ msg' = [msg EXCEPT !.meta = <<v>> \o msg.meta]
    /\ pre' = msg
    /\ op' = "wrap"
    /\ ret' = OK
    /\ arg' = NoArg
    /\ calls' = 0
    /\ honest' = FALSE
    /\ UNCHANGED <<tampered, regVars, staticVars, cacheVars, filterVars>>

Tampered(m, what, level, valid) ==
    /\ msg.kind \in ListedKinds
    /\ ~tampered
    /\ m # msg
    /\ msg' = m
    /\ tampered' = TRUE
    /\ pre' = msg
    /\ op' = "tamper"
    /\ ret' = OK
    /\ arg' = [NoArg EXCEPT !.what = what, !.level = level, !.valid = valid]
    /\ calls' = 0
    /\ honest' = FALSE
    /\ UNCHANGED <<regVars, staticVars, cacheVars, filterVars>>

TamperBody(b) == Tampered([msg EXCEPT !.body = b], "body", 0, FALSE)

TamperMeta(i, v) ==
    /\ i \in 1 .. Len(msg.meta)
    /\ Tampered([msg EXCEPT !.meta[i] = v], "meta", i, FALSE)

\* the signatures a third party puts into a slot: none, its own signature of
\* the data the slot is verified against, or a signature of other data
TamperSig(i, slot, k, d) ==
    /\ i \in 1 .. Len(msg.vhdr)
    /\ LET s == IF k = "none" THEN <<>> ELSE <<[key |-> k, data |-> d]>>
       IN  Tampered([msg EXCEPT !.vhdr[i][slot] = s], slot \o "Sig", i,
                    k # "none" /\ d = SlotData(msg, i, slot))

Next ==
    \/ \E signer \in Signers : Sign(signer)
    \/ Verify
    \/ \E v \in MetaVals : WrapMeta(v)
    \/ \E b \in OtherBodies : TamperBody(b)
    \/ \E i \in 1 .. MaxDepth, v \in OtherMetaVals : TamperMeta(i, v)
    \/ \E i \in 1 .. MaxDepth, slot \in Parts, k \in {ForeignKey, "none"} :
          \E d \in {SlotData(msg, i, slot), GarbageData} : TamperSig(i, slot, k, d)

Init == InitMsg /\ InitReg /\ InitStatic /\ InitCache(1) /\ InitFilter

Spec == Init /\ [][Next]_vars

----------------------------------------------------------------------------
(* The registry during initialization *)

Register(scheme, f) ==
    /\ LET r == RegisterScheme(publicKeys, scheme, f)
       IN  /\ publicKeys' = r.publicKeys
           /\ regRet' = IF r.panic THEN Panic ELSE OK
    /\ regArg' = [scheme |-> scheme, f |-> f, pre |-> publicKeys]
    /\ regLog' = IF scheme \in DOMAIN publicKeys
                 THEN regLog
                 ELSE Append(regLog, <<scheme, f>>)
    /\ UNCHANGED <<msgVars, staticVars, cacheVars, filterVars>>

NextRegistry == \E scheme \in Schemes, f \in Ctors : Register(scheme, f)

InitRegistry ==
    /\ InitReg
    /\ InitStatic
    /\ InitCache(1)
    /\ InitFilter
    /\ msg = BlankMsg("nil")
    /\ pre = msg
    /\ op = "init"
    /\ ret = OK
    /\ arg = NoArg
    /\ calls = 0
    /\ tampered = FALSE
    /\ honest = TRUE

SpecRegistry == InitRegistry /\ [][NextRegistry]_vars

----------------------------------------------------------------------------
(* A StaticSigner and the calls on it *)

StaticCall(o, data, r) ==
    /\ stLog.n < MaxCalls
    /\ stLog' = [stLog EXCEPT !.op = o, !.data = data, !.ret = r, !.n = @ + 1]
    /\ UNCHANGED <<static, msgVars, regVars, cacheVars, filterVars>>

StaticSign(data) == StaticCall("Sign", data, StaticSignerSign(static, data))

StaticScheme == StaticCall("Scheme", <<>>, [scheme |-> StaticSignerScheme(static)])

StaticPublic == StaticCall("Public", <<>>, [pubKey |-> StaticSignerPublic(static)])

NextStaticSigner ==
    \/ \E data \in Payloads : StaticSign(data)
    \/ StaticScheme
    \/ StaticPublic

InitStaticSigner ==
    /\ InitMsg /\ msg = BlankMsg("nil")
    /\ InitReg
    /\ \E scheme \in Schemes, sig \in SigBytes, pubKey \in PubKeys :
          static = NewStaticSigner(scheme, sig, pubKey)
    /\ stLog = NoCall(static)
    /\ InitCache(1)
    /\ InitFilter

SpecStaticSigner == InitStaticSigner /\ [][NextStaticSigner]_vars

----------------------------------------------------------------------------
(* The session cache and the goroutines that call it *)

Max(a, b) == IF a >= b THEN a ELSE b

CacheSizes == {1, 2}

Goto(t, th) == threads' = [threads EXCEPT ![t] = th]

\* sessionCache.Get, line 37: the lookup; a key that is missing returns
GetLookup(t, key) ==
    /\ threads[t].pc = "idle"
    /\ LET r == lruGet(cache, key)
       IN  /\ cache' = r.cache
           /\ IF ~r.ok
              THEN /\ cret' = [NoRet EXCEPT !.op = "Get", !.key = key,
                                            !.changed = (r.cache.items # cache.items)]
                   /\ UNCHANGED threads
              ELSE /\ Goto(t, [Idle EXCEPT !.pc = "get.expired", !.key = key,
                                           !.val = r.value])
                   /\ UNCHANGED cret
    /\ UNCHANGED <<currentEpoch, epochLog, msgVars, regVars, staticVars, filterVars>>

\* sessionCache.Get, line 43: expired loads currentEpoch; a value that is
\* not expired is returned
GetExpired(t) ==
    /\ threads[t].pc = "get.expired"
    /\ LET th == threads[t]
           epoch == currentEpoch
       IN  IF expired(th.val, epoch)
           THEN /\ Goto(t, [th EXCEPT !.pc = "get.remove", !.epoch = epoch])
                /\ UNCHANGED cret
           ELSE /\ Goto(t, Idle)
                /\ cret' = [NoRet EXCEPT !.op = "Get", !.key = th.key,
                                         !.ok = TRUE, !.token = th.val,
                                         !.hit = TRUE, !.val = th.val,
                                         !.epoch = epoch]
    /\ UNCHANGED <<cache, currentEpoch, epochLog, msgVars, regVars, staticVars, filterVars>>

\* sessionCache.Get, lines 44-45: the key of the expired value is removed
GetRemove(t) ==
    /\ threads[t].pc = "get.remove"
    /\ LET th == threads[t]
       IN  /\ cache' = lruRemove(cache, th.key)
           /\ cret' = [NoRet EXCEPT !.op = "Get", !.key = th.key,
                                    !.hit = TRUE, !.val = th.val,
                                    !.epoch = th.epoch,
                                    !.removed = ~lruContains(cache', th.key),
                                    !.changed = (cache'.items # cache.items),
                                    !.gone = lruGet(cache, th.key).value,
                                    !.now = currentEpoch]
    /\ Goto(t, Idle)
    /\ UNCHANGED <<currentEpoch, epochLog, msgVars, regVars, staticVars, filterVars>>

\* sessionCache.Put
Put(t, key, token) ==
    /\ threads[t].pc = "idle"
    /\ LET r == lruAdd(cache, key, token)
       IN  /\ cache' = r.cache
           /\ cret' = [NoRet EXCEPT !.op = "Put", !.key = key,
                                    !.ok = r.evicted, !.token = token,
                                    !.changed = (r.cache.items # cache.items)]
    /\ UNCHANGED <<threads, currentEpoch, epochLog, msgVars, regVars, staticVars, filterVars>>

\* sessionCache.updateEpoch, lines 66-67: the load and the comparison
UpdateEpochLoad(t, newEpoch) ==
    /\ threads[t].pc = "idle"
    /\ epochLog' = [epochLog EXCEPT !.passed = Max(@, newEpoch)]
    /\ LET epoch == currentEpoch
       IN  IF newEpoch > epoch
           THEN /\ Goto(t, [Idle EXCEPT !.pc = "upd.store", !.epoch = epoch,
                                        !.new = newEpoch])
                /\ UNCHANGED cret
           ELSE /\ cret' = [NoRet EXCEPT !.op = "updateEpoch", !.epoch = epoch]
                /\ UNCHANGED threads
    /\ UNCHANGED <<cache, currentEpoch, msgVars, regVars, staticVars, filterVars>>

\* sessionCache.updateEpoch, line 68: the store
UpdateEpochStore(t) ==
    /\ threads[t].pc = "upd.store"
    /\ currentEpoch' = threads[t].new
    /\ epochLog' = [epochLog EXCEPT !.peak = Max(@, threads[t].new)]
    /\ cret' = [NoRet EXCEPT !.op = "updateEpoch", !.epoch = threads[t].epoch]
    /\ Goto(t, Idle)
    /\ UNCHANGED <<cache, msgVars, regVars, staticVars, filterVars>>

NextCache ==
    \E t \in Threads :
        \/ \E key \in CacheKeys : GetLookup(t, key)
        \/ GetExpired(t)
        \/ GetRemove(t)
        \/ \E key \in CacheKeys, token \in Tokens : Put(t, key, token)
        \/ \E newEpoch \in 0 .. MaxEpoch : UpdateEpochLoad(t, newEpoch)
        \/ UpdateEpochStore(t)

InitSessionCache ==
    /\ InitMsg /\ msg = BlankMsg("nil")
    /\ InitReg
    /\ InitStatic
    /\ \E size \in CacheSizes : InitCache(size)
    /\ InitFilter

SpecCache == InitSessionCache /\ [][NextCache]_vars

----------------------------------------------------------------------------
(* Filters converted to and from v2 messages *)

\* f.key.fromString(s)
FilterFromString(s) ==
    /\ ~filter.nil
    /\ filter' = [filter EXCEPT !.key = fromString(s)]
    /\ fLog' = [fLog EXCEPT !.op = "fromString", !.s = s, !.panic = FALSE]
    /\ UNCHANGED <<v2msg, msgVars, regVars, staticVars, cacheVars>>

\* v2msg = filter.ToV2()
FilterToV2 ==
    LET r == ToV2(filter) IN
    /\ v2msg' = IF r.panic THEN v2msg ELSE r.v2
    /\ fLog' = [op |-> "ToV2", s |-> "", panic |-> r.panic,
                made |-> IF r.panic THEN fLog.made ELSE TRUE,
                src |-> IF r.panic THEN fLog.src ELSE filter]
    /\ UNCHANGED <<filter, msgVars, regVars, staticVars, cacheVars>>

\* filter = NewFilterFromV2(v2msg)
FilterFromV2 ==
    /\ filter' = NewFilterFromV2(v2msg)
    /\ fLog' = [fLog EXCEPT !.op = "NewFilterFromV2", !.s = "",
                             !.panic = FALSE]
    /\ UNCHANGED <<v2msg, msgVars, regVars, staticVars, cacheVars>>

NextFilter ==
    \/ \E s \in KeyStrings : FilterFromString(s)
    \/ FilterToV2
    \/ FilterFromV2

\* a Filter built by a record or held as a nil pointer, and a message that
\* is nil, blank or received from a peer
InitFilters ==
    /\ InitMsg /\ msg = BlankMsg("nil")
    /\ InitReg
    /\ InitStatic
    /\ InitCache(1)
    /\ \/ filter = NilFilter
       \/ \E from \in {0, 2}, matcher \in {1, 2}, key \in FilterKeys,
             value \in FilterValues :
              filter = [nil |-> FALSE, from |-> from, matcher |-> matcher,
                        key |-> key, value |-> value]
    /\ \/ v2msg \in {NilV2, BlankV2}
       \/ \E key \in KeyStrings :
              v2msg = [nil |-> FALSE, headerType |-> "OBJECT",
                       matchType |-> "STRING_EQUAL", key |-> key,
                       value |-> "v"]
    /\ fLog = NoFilterCall

SpecFilter == InitFilters /\ [][NextFilter]_vars

----------------------------------------------------------------------------
(* Properties of signing and verification *)

Listed(m) == m.kind \in ListedKinds

VerifyErr(m) == verifyServiceMessage(m).err

Verifies(m) == VerifyErr(m) = OK

VerifyLevels(m) == Levels(verifyServiceMessage(m).checks)

\* the last step was a signServiceMessage that returned nil
SignedOK == op = "sign" /\ ret = OK /\ Listed(msg)

\* the signer's public key accepts the signer's signatures
AcceptsOwn(signer) ==
    \A d \in {BodyData(b) : b \in OtherBodies} \cup {GarbageData} :
        PublicKeyVerify(d, SignerSign(signer, d))

\* the verification header of m verifies as the origin of a new level: against
\* the body and the origin of the meta header
PriorVerifies(m) ==
    \/ m.vhdr = <<>>
    \/ verifyMatryoshkaLevel(BodyData(m.body), metaGetOrigin(m.meta),
                             m.vhdr).err = OK

\* C1 as claimed: after signServiceMessage calls alone, with signers whose
\* public keys accept their signatures, verifyServiceMessage right after a
\* successful signServiceMessage returns nil.
C1_RoundTripAfterSigns ==
    (honest /\ SignedOK /\ AcceptsOwn(arg.signer)) => Verifies(msg)

\* C1 amended: verifyServiceMessage right after a successful
\* signServiceMessage with a signer whose public key accepts its signatures
\* returns nil exactly when the message had no verification header or its
\* verification header verifies against the body and the origin of the meta
\* header.
C1_RoundTrip ==
    (SignedOK /\ AcceptsOwn(arg.signer)) =>
        (Verifies(msg) <=> PriorVerifies(pre))

C1_Witness ==
    /\ SignedOK /\ AcceptsOwn(arg.signer)
    /\ pre.vhdr # <<>> /\ Len(msg.meta) = 2
    /\ PriorVerifies(pre) /\ Verifies(msg)

\* the error that names the part a tamper changed
PartErrors(what) ==
    CASE what = "body" -> {ErrVerifyBody}
      [] what = "meta" -> {ErrVerifyMeta}
      [] what = "metaSig" -> {ErrVerifyMeta}
      [] what = "originSig" -> {ErrVerifyOrigin}
      [] what = "bodySig" -> {ErrVerifyBody, ErrUpperBody}

\* C2 as claimed: a change of the body, the meta header or one signature of
\* a signed message that verified makes verifyServiceMessage return the
\* error of the part that was changed.
C2_TamperNamesPart ==
    (op = "tamper" /\ Verifies(pre)) => VerifyErr(msg) \in PartErrors(arg.what)

\* C2 amended: on a signed message that verified, a change of the body
\* returns the body error and a change of the meta header the meta header
\* error; a change of a signature of a nested level returns the origin
\* error of the outermost level; a body signature put on an outermost level
\* that has an origin returns the upper level error; any other change of a
\* signature of the outermost level returns the error of its part, unless
\* the new value is a valid signature of the same data, which is accepted.
C2_TamperDetected ==
    (op = "tamper" /\ Verifies(pre)) =>
        VerifyErr(msg) =
            IF arg.what = "body" THEN ErrVerifyBody
            ELSE IF arg.what = "meta" THEN ErrVerifyMeta
            ELSE IF arg.level > 1 THEN ErrVerifyOrigin
            ELSE IF arg.what = "bodySig" /\ Len(msg.vhdr) > 1 THEN ErrUpperBody
            ELSE IF arg.valid THEN OK
            ELSE IF arg.what = "metaSig" THEN ErrVerifyMeta
            ELSE IF arg.what = "originSig" THEN ErrVerifyOrigin
            ELSE ErrVerifyBody

C2_Witness ==
    /\ op = "tamper" /\ Verifies(pre)
    /\ arg.what = "metaSig" /\ arg.level = 2
    /\ VerifyErr(msg) = ErrVerifyOrigin

\* a level that has an origin carries a body signature
UpperBodyLevels(m) ==
    {i \in 1 .. Len(m.vhdr) - 1 : m.vhdr[i].body # <<>>}

FirstUpperBody(m) ==
    CHOOSE i \in UpperBodyLevels(m) : \A j \in UpperBodyLevels(m) : i <= j

SlotOK(m, i, slot) ==
    /\ m.vhdr[i][slot] # <<>>
    /\ m.vhdr[i][slot][1].data = SlotData(m, i, slot)

\* C3 as claimed: a message with a body signature on a level that has an
\* origin fails verification with the upper level error.
C3_UpperBodyError ==
    (Listed(msg) /\ UpperBodyLevels(msg) # {}) => VerifyErr(msg) = ErrUpperBody

\* C3 amended: such a message is never accepted, valid body signature or
\* not; verification returns the upper level error exactly when the meta and
\* origin signatures of that level and of all levels around it are valid,
\* and the meta header or origin error of the first invalid one otherwise.
C3_UpperBodyRejected ==
    (Listed(msg) /\ UpperBodyLevels(msg) # {}) =>
        LET n == FirstUpperBody(msg)
            bad == {i \in 1 .. n : ~(SlotOK(msg, i, "meta") /\ SlotOK(msg, i, "origin"))}
            first == CHOOSE i \in bad : \A j \in bad : i <= j
        IN  VerifyErr(msg) =
                IF bad = {} THEN ErrUpperBody
                ELSE IF ~SlotOK(msg, first, "meta") THEN ErrVerifyMeta
                ELSE ErrVerifyOrigin

C3_Witness ==
    /\ Listed(msg) /\ UpperBodyLevels(msg) = {1}
    /\ SlotOK(msg, 1, "body") /\ Verifies(pre)
    /\ VerifyErr(msg) = ErrUpperBody

\* C4 as claimed, for callers that only sign, with signers whose public keys
\* accept their signatures: a successful signServiceMessage on a message
\* with a verification header H makes H, unchanged, the origin of the new
\* header, and verification goes one level deeper than before.
C4_NestsAndGoesDeeper ==
    (honest /\ SignedOK /\ pre.vhdr # <<>>) =>
        /\ Tail(msg.vhdr) = pre.vhdr
        /\ Len(msg.vhdr) = Len(pre.vhdr) + 1
        /\ VerifyLevels(msg) = VerifyLevels(pre) + 1

\* C4 amended: a successful signServiceMessage on a message with a
\* verification header H makes H, unchanged, the origin of the new header,
\* so the chain grows by one level; verification evaluates no more levels
\* than the chain has, all of them when it succeeds, and, with a signer whose
\* public key accepts its signatures, one more than the verification of H
\* against the body and the origin of the meta header.
C4_Nests ==
    (SignedOK /\ pre.vhdr # <<>>) =>
        /\ Tail(msg.vhdr) = pre.vhdr
        /\ Len(msg.vhdr) = Len(pre.vhdr) + 1
        /\ VerifyLevels(msg) <= Len(msg.vhdr)
        /\ Verifies(msg) => VerifyLevels(msg) = Len(msg.vhdr)
        /\ AcceptsOwn(arg.signer) =>
              VerifyLevels(msg) =
                 1 + Levels(verifyMatryoshkaLevel(BodyData(pre.body),
                                metaGetOrigin(pre.meta), pre.vhdr).checks)

C4_Witness ==
    /\ SignedOK /\ pre.vhdr # <<>>
    /\ Tail(msg.vhdr) = pre.vhdr
    /\ Verifies(msg) /\ VerifyLevels(msg) = 2 /\ VerifyLevels(pre) = 1

\* C5: a successful signServiceMessage puts a body signature into the new
\* header exactly when the message had no verification header; so in a
\* message that only signServiceMessage gave its headers, the innermost level
\* has a body signature and no other level has one.
C5_BodySignatureInnermost ==
    /\ SignedOK => (msg.vhdr[1].body # <<>> <=> pre.vhdr = <<>>)
    /\ (Listed(msg) /\ ~tampered) =>
          \A i \in 1 .. Len(msg.vhdr) :
              msg.vhdr[i].body # <<>> <=> i = Len(msg.vhdr)

C5_Witness ==
    /\ SignedOK /\ Len(msg.vhdr) = 2
    /\ msg.vhdr[1].body = <<>> /\ msg.vhdr[2].body # <<>>

\* C6 as claimed: signing a message that has no verification header leaves
\* the origin signature of the new header empty, and sets no origin.
C6_NoOriginSignatureWithoutOrigin ==
    (SignedOK /\ pre.vhdr = <<>>) =>
        /\ msg.vhdr[1].origin = <<>>
        /\ Len(msg.vhdr) = 1

\* C6 amended: a successful signServiceMessage always puts an origin
\* signature into the new header: the signer's signature of the prior
\* verification header, and of empty data when the message had none; in
\* that case the signer signed three times and the new header has no origin.
C6_OriginSignatureAlways ==
    SignedOK =>
        /\ msg.vhdr[1].origin = <<SignerSign(arg.signer, VhdrData(pre.vhdr))>>
        /\ Tail(msg.vhdr) = pre.vhdr
        /\ pre.vhdr = <<>> => (Len(msg.vhdr) = 1 /\ calls = 3)
        /\ pre.vhdr # <<>> => calls = 2

C6_Witness ==
    /\ SignedOK /\ pre.vhdr = <<>> /\ ~arg.signer.static
    /\ msg.vhdr[1].origin = <<[key |-> "k1", data |-> EmptyData]>>
    /\ Len(msg.vhdr) = 1

SignError(part) ==
    CASE part = "body" -> ErrSignBody
      [] part = "meta" -> ErrSignMeta
      [] part = "origin" -> ErrSignOrigin

\* C7: when the signer's Sign fails for the body, the meta header or the
\* origin, signServiceMessage returns the signing error of that part and
\* the message is as it was before the call; whenever signServiceMessage
\* returns an error the message is as it was.
C7_AllOrNothing ==
    (op = "sign" /\ Listed(pre)) =>
        /\ (arg.signer.fails \in Parts
              /\ (arg.signer.fails = "body" => pre.vhdr = <<>>))
            => (ret = SignError(arg.signer.fails) /\ msg = pre)
        /\ ret # OK => msg = pre

C7_Witness ==
    /\ op = "sign" /\ Listed(pre) /\ pre.vhdr # <<>>
    /\ arg.signer.fails = "origin" /\ ret = ErrSignOrigin
    /\ calls = 2 /\ msg = pre

\* the number of origin links of a header chain
Links(chain) == IF chain = <<>> THEN 0 ELSE Len(chain) - 1

\* C8 as claimed: after signServiceMessage calls alone on a fresh message
\* the meta header chain and the verification header chain are of equal
\* length.
C8_LockStepAfterSigns ==
    (honest /\ Listed(msg)) => Links(msg.meta) = Links(msg.vhdr)

\* C8 amended: signServiceMessage never changes the meta header chain, and a
\* successful call makes the verification header chain one level longer; so
\* the two chains are of equal length after the call exactly when the meta
\* header chain had as many origin links as the message had verification
\* header levels before it, which after the first signature takes the caller
\* to nest the meta header into a new one before each call.
C8_SignGrowsHeaderChainOnly ==
    (op = "sign" /\ Listed(msg)) =>
        /\ msg.meta = pre.meta
        /\ Len(msg.vhdr) = Len(pre.vhdr) + (IF ret = OK THEN 1 ELSE 0)
        /\ ret = OK =>
              (Links(msg.meta) = Links(msg.vhdr)
                  <=> Links(pre.meta) = Len(pre.vhdr))

C8_Witness ==
    /\ SignedOK /\ Len(msg.vhdr) = 3 /\ Len(msg.meta) = 3
    /\ Links(msg.meta) = Links(msg.vhdr)

\* C9: signServiceMessage and verifyServiceMessage of the nil message return
\* nil, do not call the signer and change nothing.
C9_NilNoOp ==
    (pre.kind = "nil" /\ op \in {"sign", "verify"}) =>
        /\ ret = OK
        /\ calls = 0
        /\ msg = pre

C9_Witness ==
    /\ pre.kind = "nil" /\ op = "sign" /\ arg.signer.fails = "meta"
    /\ ret = OK /\ calls = 0 /\ msg = pre

\* message values outside the set serviceMessageBody lists, nil apart
UnsupportedKinds == {"foreign", "unlisted"}

\* C11: serviceMessageBody panics for every message it does not list and
\* returns no body for it; signServiceMessage and verifyServiceMessage of a
\* message that is not a service message return the unsupported message
\* error, and of a service message serviceMessageBody does not list they
\* panic; neither returns nil, calls the signer or changes the message, which
\* is left without verification header when it had none.
C11_UnsupportedKind ==
    /\ \A k \in Kinds \ ListedKinds : serviceMessageBody(BlankMsg(k)).panic
    /\ (pre.kind \in UnsupportedKinds /\ op \in {"sign", "verify"}) =>
          /\ ret # OK
          /\ pre.kind = "unlisted" => ret = Panic
          /\ pre.kind = "foreign" =>
                ret = (IF op = "sign" THEN ErrSignUnsupported ELSE ErrUnsupported)
          /\ calls = 0
          /\ msg = pre
    /\ msg.kind \in UnsupportedKinds => msg.vhdr = <<>>

C11_Witness ==
    /\ pre.kind = "unlisted" /\ pre.body # <<>> /\ op = "sign"
    /\ ~arg.signer.static /\ arg.signer.fails = "none"
    /\ ret = Panic /\ msg = pre /\ msg.vhdr = <<>>

\* the levels verification has to go through: one for each verification
\* header of the chain, and one for a message without verification header
NumLevels(m) == IF m.vhdr = <<>> THEN 1 ELSE Len(m.vhdr)

\* the k-th check of the order claimed: level by level from the outermost,
\* at each level the meta header signature, the origin signature, then the
\* body signature (innermost level) or the empty body slot (outer level)
CheckLevel(k) == ((k - 1) \div 3) + 1

CheckAt(m, k) ==
    CASE (k - 1) % 3 = 0 -> "meta"
      [] (k - 1) % 3 = 1 -> "origin"
      [] OTHER -> IF CheckLevel(k) = NumLevels(m) THEN "body" ELSE "upper"

PassAt(m, k) ==
    LET i == CheckLevel(k)
    IN  CASE CheckAt(m, k) = "upper" -> m.vhdr[i].body = <<>>
          [] OTHER -> i <= Len(m.vhdr) /\ SlotOK(m, i, CheckAt(m, k))

ErrAt(m, k) ==
    CASE CheckAt(m, k) = "meta" -> ErrVerifyMeta
      [] CheckAt(m, k) = "origin" -> ErrVerifyOrigin
      [] CheckAt(m, k) = "body" -> ErrVerifyBody
      [] CheckAt(m, k) = "upper" -> ErrUpperBody

FailingChecks(m) == {k \in 1 .. 3 * NumLevels(m) : ~PassAt(m, k)}

FirstFailing(m) ==
    CHOOSE k \in FailingChecks(m) : \A j \in FailingChecks(m) : k <= j

\* C13: verifyServiceMessage makes its checks in this order: level by level
\* from the outermost, at each level the meta header signature, then the
\* origin signature, then the body signature at the innermost level or the
\* empty body slot at an outer one; it makes every check up to the first
\* that fails and none after it, and returns the error of that check, or nil
\* when none fails.
C13_VerificationOrder ==
    Listed(msg) =>
        LET r == verifyServiceMessage(msg)
            last == IF FailingChecks(msg) = {}
                    THEN 3 * NumLevels(msg)
                    ELSE FirstFailing(msg)
        IN  /\ r.checks = [k \in 1 .. last |-> CheckAt(msg, k)]
            /\ r.err = IF FailingChecks(msg) = {} THEN OK ELSE ErrAt(msg, last)

C13_Witness ==
    /\ Listed(msg) /\ Len(msg.vhdr) = 3
    /\ FailingChecks(msg) = {4, 7}
    /\ verifyServiceMessage(msg).checks = <<"meta", "origin", "upper", "meta">>
    /\ VerifyErr(msg) = ErrVerifyMeta

\* the origin signature slot of the level that has no origin
InnermostOriginSig(m) == m.vhdr[Len(m.vhdr)].origin

\* C14 as claimed: a message whose innermost verification header, the one
\* without origin, has a non-empty origin signature slot is rejected.
C14_OriginSignatureRejected ==
    (Listed(msg) /\ msg.vhdr # <<>> /\ InnermostOriginSig(msg) # <<>>) =>
        ~Verifies(msg)

\* C14 amended: verification takes the origin signature of a level without
\* origin for a signature of the empty data: a message is accepted only when
\* that slot holds a valid signature of the empty data, and when the slot is
\* empty or holds anything else, and all checks before it pass, the message
\* is rejected with the origin error.
C14_OriginSignatureOfEmptyData ==
    (Listed(msg) /\ msg.vhdr # <<>>) =>
        LET n == Len(msg.vhdr)
            slot == InnermostOriginSig(msg)
            valid == slot # <<>> /\ slot[1].data = EmptyData
        IN  /\ Verifies(msg) => valid
            /\ (~valid /\ \A k \in 1 .. 3 * n - 2 : PassAt(msg, k)) =>
                  VerifyErr(msg) = ErrVerifyOrigin

C14_Witness ==
    /\ op = "tamper" /\ Verifies(pre) /\ Len(msg.vhdr) = 1
    /\ arg.what = "originSig" /\ InnermostOriginSig(msg) = <<>>
    /\ InnermostOriginSig(pre) = <<[key |-> "k1", data |-> EmptyData]>>
    /\ VerifyErr(msg) = ErrVerifyOrigin

\* C15: verifyServiceMessage of a listed message without verification
\* header, or with a verification header that has an empty meta signature
\* slot at some level, returns an error, the meta header error when the
\* header is missing or the slot is the outermost one; a message that is
\* accepted had the meta, origin and body signatures of its innermost level
\* checked, and the nil message is the only one accepted without any check.
C15_UnsignedRejected ==
    /\ (Listed(msg) /\ msg.vhdr = <<>>) => VerifyErr(msg) = ErrVerifyMeta
    /\ (Listed(msg) /\ msg.vhdr # <<>>) =>
          /\ msg.vhdr[1].meta = <<>> => VerifyErr(msg) = ErrVerifyMeta
          /\ (\E i \in 1 .. Len(msg.vhdr) : msg.vhdr[i].meta = <<>>) =>
                ~Verifies(msg)
    /\ Verifies(msg) =>
          LET checks == verifyServiceMessage(msg).checks
          IN  IF msg.kind = "nil" THEN checks = <<>>
              ELSE /\ Len(checks) >= 3
                   /\ SubSeq(checks, Len(checks) - 2, Len(checks)) =
                         <<"meta", "origin", "body">>
    /\ (op = "verify" /\ ret = OK /\ pre.vhdr = <<>>) => pre.kind = "nil"

C15_Witness ==
    /\ op = "verify" /\ Listed(pre) /\ pre.body # <<>> /\ pre.meta # <<>>
    /\ pre.vhdr = <<>>
    /\ ret = ErrVerifyMeta /\ verifyServiceMessage(pre).checks = <<"meta">>

\* C16: verifyServiceMessage leaves the message as it was, whatever it
\* returns; signServiceMessage leaves the body and the meta header as they
\* were, and the verification header too when it returns an error; when it
\* returns nil for a listed message, the verification header it found is,
\* unchanged, the origin of the new one.
C16_Frame ==
    /\ op = "verify" => msg = pre
    /\ op = "sign" =>
          /\ msg.kind = pre.kind
          /\ msg.body = pre.body
          /\ msg.meta = pre.meta
          /\ ret # OK => msg.vhdr = pre.vhdr
          /\ (ret = OK /\ Listed(pre)) =>
                (Len(msg.vhdr) = Len(pre.vhdr) + 1 /\ Tail(msg.vhdr) = pre.vhdr)
          /\ (ret = OK /\ ~Listed(pre)) => msg.vhdr = pre.vhdr

C16_Witness ==
    /\ op = "sign" /\ ret = OK /\ Listed(pre)
    /\ pre.body # <<>> /\ Len(pre.meta) = 2 /\ Len(pre.vhdr) = 2
    /\ msg.body = pre.body /\ msg.meta = pre.meta
    /\ Tail(msg.vhdr) = pre.vhdr

\* C17: verifyServiceMessage of a listed message returns after it evaluated
\* at least one level and at most one more than the verification header
\* chain has origins, with at most three checks a level; it evaluates all of
\* them when it accepts the message, whether the meta header chain is
\* shorter or longer than the verification header chain.
C17_VerifyLevelsBounded ==
    Listed(msg) =>
        /\ VerifyLevels(msg) >= 1
        /\ VerifyLevels(msg) <= Links(msg.vhdr) + 1
        /\ Len(verifyServiceMessage(msg).checks) <= 3 * (Links(msg.vhdr) + 1)
        /\ Verifies(msg) => VerifyLevels(msg) = Links(msg.vhdr) + 1

C17_Witness ==
    /\ op = "verify" /\ Listed(msg) /\ honest
    /\ msg.meta = <<>> /\ Links(msg.vhdr) = 2
    /\ ret = OK /\ VerifyLevels(msg) = 3

\* the meta header chain is longer than the verification header chain, and
\* verification ends with the verification header chain
C17_LongMetaChain ==
    /\ op = "verify" /\ Listed(msg)
    /\ Len(msg.meta) = 3 /\ Len(msg.vhdr) = 1
    /\ ret = OK /\ VerifyLevels(msg) = 1

\* C18 as claimed, for a maximum below the longest chain callers build: a
\* message whose verification header chain is that long is rejected.
C18_MaxDepthEnforced ==
    (Listed(msg) /\ Len(msg.vhdr) >= MaxDepth) => ~Verifies(msg)

\* C18 amended: verifyServiceMessage has no maximum depth: a message whose
\* checks all pass is accepted however long its verification header chain
\* is, after as many levels as the chain has; the only error that is not the
\* failure of a signature is the upper level error, and it is returned only
\* for a body signature on a level that has an origin.
C18_NoMaxDepth ==
    Listed(msg) =>
        /\ (\A k \in 1 .. 3 * NumLevels(msg) : PassAt(msg, k)) =>
              (Verifies(msg) /\ VerifyLevels(msg) = Len(msg.vhdr))
        /\ VerifyErr(msg) \in
              {OK, ErrVerifyMeta, ErrVerifyOrigin, ErrVerifyBody, ErrUpperBody}
        /\ VerifyErr(msg) = ErrUpperBody => UpperBodyLevels(msg) # {}

C18_Witness ==
    /\ op = "verify" /\ Listed(msg) /\ ~tampered
    /\ Len(msg.vhdr) = MaxDepth /\ Len(msg.meta) = MaxDepth
    /\ ret = OK /\ VerifyLevels(msg) = MaxDepth

----------------------------------------------------------------------------
(* Properties of the StaticSigner *)

----------------------------------------------------------------------------
(* Properties of the session cache *)

\* C19: Get returns a token and true only for a key it found in the cache,
\* the token being the one found and not expired at the epoch Get loaded
\* from currentEpoch; when the token found is expired at that epoch, Get
\* removes the key and returns the empty token and false; when the key is
\* missing, Get returns the empty token and false and leaves the cache as it
\* is.
C19_GetNeverServesExpired ==
    cret.op = "Get" =>
        /\ cret.ok =>
              /\ cret.hit
              /\ cret.token = cret.val
              /\ ~ExpiredAt(cret.token, cret.epoch)
        /\ (cret.hit /\ ExpiredAt(cret.val, cret.epoch)) =>
              /\ ~cret.ok
              /\ cret.token = EmptyToken
              /\ cret.removed
              /\ ~lruContains(cache, cret.key)
        /\ ~cret.hit =>
              /\ ~cret.ok
              /\ cret.token = EmptyToken
              /\ ~cret.changed

C19_Witness ==
    /\ cret.op = "Get" /\ cret.hit /\ cret.val.exp = 1 /\ cret.epoch = 2
    /\ ~cret.ok /\ cret.token = EmptyToken /\ cret.removed /\ cret.changed
    /\ currentEpoch = 2

\* Get returned a token that was not expired at the epoch it loaded
C19_Served ==
    /\ cret.op = "Get" /\ cret.ok /\ cret.token.exp = 1 /\ cret.epoch = 1

\* a goroutine is between the load and the store of updateEpoch
InUpdateEpoch == \E t \in Threads : threads[t].pc = "upd.store"

\* C20: under every interleaving of updateEpoch calls currentEpoch never
\* decreases, so that it is the highest value it ever had, and when every
\* call has returned it is the highest of its initial value, zero, and the
\* epochs passed to the calls.
C20_EpochMonotonic ==
    /\ currentEpoch = epochLog.peak
    /\ ~InUpdateEpoch => currentEpoch = epochLog.passed

\* C21: under every interleaving of Get, Put and updateEpoch calls, the
\* token the Remove of Get takes out of the cache is expired at the value
\* currentEpoch has at that moment.
C21_GetEvictsOnlyExpired ==
    (cret.op = "Get" /\ cret.gone # EmptyToken) =>
        ExpiredAt(cret.gone, cret.now)

----------------------------------------------------------------------------
(* Properties of the filter keys *)

\* C22: fromString(s) followed by String() returns s, with a reserved name
\* stored as a type with an empty string and any other s as type 0 with
\* str = s; a reserved type is restored by fromString of its String(); and
\* the Key() of a Filter is the same after ToV2 and NewFilterFromV2.
C22_FilterKeyRoundTrip ==
    /\ fLog.op = "fromString" =>
          /\ filterKeyString(filter.key) = fLog.s
          /\ IF fLog.s \in ReservedNames
               THEN filter.key.typ \in ReservedTypes /\ filter.key.str = ""
               ELSE filter.key = [typ |-> 0, str |-> fLog.s]
    /\ (fLog.op = "NewFilterFromV2" /\ fLog.made /\ ~fLog.src.nil) =>
          /\ FilterKey(filter) = FilterKey(fLog.src)
          /\ fLog.src.key.typ \in ReservedTypes =>
                filter.key = [typ |-> fLog.src.key.typ, str |-> ""]

\* a Filter whose key holds a reserved name as a string of type 0 went
\* through ToV2 and NewFilterFromV2 and came back with the reserved type
C22_Witness ==
    /\ fLog.op = "NewFilterFromV2" /\ fLog.made /\ ~fLog.src.nil
    /\ fLog.src.key = [typ |-> 0, str |-> FilterObjectType]
    /\ filter.key = [typ |-> fKeyObjType, str |-> ""]
    /\ FilterKey(filter) = FilterObjectType

\* a reserved type went through ToV2 and NewFilterFromV2
C22_ReservedTypeRestored ==
    /\ fLog.op = "NewFilterFromV2" /\ fLog.made /\ ~fLog.src.nil
    /\ fLog.src.key.typ = fKeyObjHomomorphicHash
    /\ filter.key.typ = fKeyObjHomomorphicHash

\* fromString was given a string that is no reserved name
C22_PlainKeyKept ==
    /\ fLog.op = "fromString" /\ fLog.s = "$Object:Version"
    /\ filter.key = [typ |-> 0, str |-> "$Object:Version"]

----------------------------------------------------------------------------
(* Properties of the registry *)

\* C10: RegisterScheme panics exactly for a scheme that is registered, and
\* then leaves the registry as it was; otherwise it adds the scheme with the
\* constructor given; no registered scheme is ever removed or given another
\* constructor, so the registry maps the schemes of the registrations that
\* did not panic, each to the constructor of its registration.
C10_WriteOnce ==
    /\ regRet = Panic =>
          (regArg.scheme \in DOMAIN regArg.pre /\ publicKeys = regArg.pre)
    /\ (regRet = OK /\ regLog # << >>) =>
          /\ regArg.scheme \notin DOMAIN regArg.pre
          /\ publicKeys[regArg.scheme] = regArg.f
    /\ \A s \in DOMAIN regArg.pre :
          s \in DOMAIN publicKeys /\ publicKeys[s] = regArg.pre[s]
    /\ DOMAIN publicKeys = {regLog[i][1] : i \in 1 .. Len(regLog)}
    /\ \A i \in 1 .. Len(regLog) : publicKeys[regLog[i][1]] = regLog[i][2]
    /\ Len(regLog) = Cardinality(DOMAIN publicKeys)

C10_Witness ==
    /\ regRet = Panic
    /\ DOMAIN publicKeys = Schemes
    /\ publicKeys[regArg.scheme] # regArg.f

====
